---- MODULE Spec2Model ----
(***************************************************************************)
(* Model of internal/service/apigatewayv2/stage.go: the lifecycle handlers *)
(* of the aws_apigatewayv2_stage resource (create, read, update, delete,   *)
(* import), the shape converters they use, and the remote management API   *)
(* they call.                                                              *)
(*                                                                         *)
(* Strings that the code splits or formats (identifiers, URLs) are         *)
(* sequences of characters or of segments; other strings are TLA+ strings. *)
(* A Go pointer is a sequence of length 0 (nil) or 1.  A Go int is a pair  *)
(* of limbs [hi, lo] with value hi * 2^16 + lo, so that the conversion to  *)
(* int32 keeps its width.                                                  *)
(***************************************************************************)
EXTENDS Integers, Sequences, FiniteSets

VARIABLES
    protocolType,  \* the protocol type of the owning API
    cfgName,       \* the stage name of the configuration (name, ForceNew)
    remote,        \* the remote stage record: <<>> or <<stage>>
    d,             \* the local resource data: identity and attributes
    refreshed,     \* the attributes are those of the last read, which succeeded
    pc,            \* "idle", or "returned" after a handler has run
    op,            \* the handler that last ran: inputs, calls and error
    conv           \* a converter input and its result

vars == <<protocolType, cfgName, remote, d, refreshed, pc, op, conv>>

(***************************************************************************)
(* Bounds of the model.                                                    *)
(***************************************************************************)
\* Largest length of an import identifier drawn from ImportChars.
MaxImportIdLen == 3
\* Throttling rate limits are drawn from 0..MaxRateLimit.
MaxRateLimit == 1

(***************************************************************************)
(* Go values.                                                              *)
(***************************************************************************)
NilPtr == <<>>

Ptr(v) == <<v>>

\* aws.ToBool, aws.ToString: the zero value for a nil pointer.
ToBool(p) == IF p = NilPtr THEN FALSE ELSE p[1]

ToString(p) == IF p = NilPtr THEN "" ELSE p[1]

ToFloat64(p) == IF p = NilPtr THEN 0 ELSE p[1]

LimbBase == 2 ^ 16

GoInt(hi, lo) == [hi |-> hi, lo |-> lo]

\* int32(v) of a Go int: the low 32 bits, read as a signed number.
ToInt32(v) == [hi |-> ((v.hi + LimbBase \div 2) % LimbBase) - LimbBase \div 2, lo |-> v.lo]

\* int(aws.ToInt32(p)): zero for nil, otherwise widened unchanged.
IntOfInt32Ptr(p) == IF p = NilPtr THEN GoInt(0, 0) ELSE p[1]

ProtocolTypeWebsocket == "WEBSOCKET"

ProtocolTypeHttp == "HTTP"

ProtocolTypes == {ProtocolTypeWebsocket, ProtocolTypeHttp}

\* awstypes.LoggingLevel values, and "" for an unset level.
LoggingLevels == {"", "ERROR", "INFO", "OFF"}

(***************************************************************************)
(* Shape converters.                                                       *)
(***************************************************************************)
\* The protocol gate dropped: trace fields copied for every family.
RouteSettingsOfNoGate(m, protocol) ==
    [DataTraceEnabled       |-> Ptr(m.data_trace_enabled),
     DetailedMetricsEnabled |-> Ptr(m.detailed_metrics_enabled),
     LoggingLevel           |-> m.logging_level,
     ThrottlingBurstLimit   |-> Ptr(ToInt32(m.throttling_burst_limit)),
     ThrottlingRateLimit    |-> Ptr(m.throttling_rate_limit)]

\* The body of the loop of expandRouteSettings: one configuration entry to
\* one awstypes.RouteSettings.
RouteSettingsOf(m, protocol) ==
    [DataTraceEnabled       |-> IF protocol = ProtocolTypeWebsocket
                                THEN Ptr(m.data_trace_enabled) ELSE NilPtr,
     DetailedMetricsEnabled |-> Ptr(m.detailed_metrics_enabled),
     LoggingLevel           |-> IF m.logging_level # "" /\ protocol = ProtocolTypeWebsocket
                                THEN m.logging_level ELSE "",
     ThrottlingBurstLimit   |-> Ptr(ToInt32(m.throttling_burst_limit)),
     ThrottlingRateLimit    |-> Ptr(m.throttling_rate_limit)]

\* A null list element (an empty configuration block).
NullEntry == [null |-> TRUE]

EmptyRouteSettings ==
    [DataTraceEnabled |-> NilPtr, DetailedMetricsEnabled |-> NilPtr, LoggingLevel |-> "",
     ThrottlingBurstLimit |-> NilPtr, ThrottlingRateLimit |-> NilPtr]

\* vSettings is a set of configuration entries with distinct route keys; the
\* result is a map from route key to settings.
expandRouteSettings(vSettings, protocol) ==
    [k \in {m.route_key : m \in vSettings} |->
        RouteSettingsOf(CHOOSE m \in vSettings : m.route_key = k, protocol)]

FlatRouteEntry(k, rs) ==
    [data_trace_enabled       |-> ToBool(rs.DataTraceEnabled),
     detailed_metrics_enabled |-> ToBool(rs.DetailedMetricsEnabled),
     logging_level            |-> rs.LoggingLevel,
     route_key                |-> k,
     throttling_burst_limit   |-> IntOfInt32Ptr(rs.ThrottlingBurstLimit),
     throttling_rate_limit    |-> ToFloat64(rs.ThrottlingRateLimit)]

flattenRouteSettings(settings) ==
    {FlatRouteEntry(k, settings[k]) : k \in DOMAIN settings}

\* The logging level copied for every family, the trace flag still gated.
DefaultRouteSettingsOfLevelUngated(m, protocol) ==
    [DataTraceEnabled       |-> IF protocol = ProtocolTypeWebsocket
                                THEN Ptr(m.data_trace_enabled) ELSE NilPtr,
     DetailedMetricsEnabled |-> Ptr(m.detailed_metrics_enabled),
     LoggingLevel           |-> m.logging_level,
     ThrottlingBurstLimit   |-> Ptr(ToInt32(m.throttling_burst_limit)),
     ThrottlingRateLimit    |-> Ptr(m.throttling_rate_limit)]

\* expandDefaultRouteSettings after its nil check: the one configuration
\* entry to an awstypes.RouteSettings.
DefaultRouteSettingsOf(m, protocol) ==
    [DataTraceEnabled       |-> IF protocol = ProtocolTypeWebsocket
                                THEN Ptr(m.data_trace_enabled) ELSE NilPtr,
     DetailedMetricsEnabled |-> Ptr(m.detailed_metrics_enabled),
     LoggingLevel           |-> IF m.logging_level # "" /\ protocol = ProtocolTypeWebsocket
                                THEN m.logging_level ELSE "",
     ThrottlingBurstLimit   |-> Ptr(ToInt32(m.throttling_burst_limit)),
     ThrottlingRateLimit    |-> Ptr(m.throttling_rate_limit)]

\* Access-log settings whose format is never copied.
expandAccessLogSettingsDropsFormat(vSettings) ==
    IF Len(vSettings) = 0 \/ vSettings[1] = NullEntry
    THEN [DestinationArn |-> NilPtr, Format |-> NilPtr]
    ELSE [DestinationArn |-> IF vSettings[1].destination_arn # ""
                             THEN Ptr(vSettings[1].destination_arn) ELSE NilPtr,
          Format         |-> NilPtr]

\* vSettings is a list of 0 or 1 entries (without route_key).
expandDefaultRouteSettings(vSettings, protocol) ==
    IF Len(vSettings) = 0 \/ vSettings[1] = NullEntry THEN EmptyRouteSettings
    ELSE DefaultRouteSettingsOf(vSettings[1], protocol)

\* routeSettings is a pointer: NilPtr or Ptr(settings).
flattenDefaultRouteSettings(routeSettings) ==
    IF routeSettings = NilPtr THEN <<>>
    ELSE <<[data_trace_enabled       |-> ToBool(routeSettings[1].DataTraceEnabled),
            detailed_metrics_enabled |-> ToBool(routeSettings[1].DetailedMetricsEnabled),
            logging_level            |-> routeSettings[1].LoggingLevel,
            throttling_burst_limit   |-> IntOfInt32Ptr(routeSettings[1].ThrottlingBurstLimit),
            throttling_rate_limit    |-> ToFloat64(routeSettings[1].ThrottlingRateLimit)]>>

EmptyAccessLogSettings == [DestinationArn |-> NilPtr, Format |-> NilPtr]

\* vSettings is a list of 0 or 1 entries.
expandAccessLogSettings(vSettings) ==
    IF Len(vSettings) = 0 \/ vSettings[1] = NullEntry THEN EmptyAccessLogSettings
    ELSE [DestinationArn |-> IF vSettings[1].destination_arn # ""
                             THEN Ptr(vSettings[1].destination_arn) ELSE NilPtr,
          Format         |-> IF vSettings[1].format # ""
                             THEN Ptr(vSettings[1].format) ELSE NilPtr]

flattenAccessLogSettings(settings) ==
    IF settings = NilPtr THEN <<>>
    ELSE <<[destination_arn |-> ToString(settings[1].DestinationArn),
            format          |-> ToString(settings[1].Format)]>>

(***************************************************************************)
(* Identifiers, the configuration domain.                                  *)
(***************************************************************************)
defaultStageName == <<"$", "d", "e", "f", "a", "u", "l", "t">>

\* The one API of the model and the stage names a configuration may use.
ApiId == <<"a">>

StageNames == {<<"p">>, defaultStageName}

Region == "us-east-1"

Partition == "aws"

AccountID == "123456789012"

RouteKeys == {"A", "B"}

VarNames == {"a", "b"}

VarValues == {"", "1", "2"}

\* Two per-route settings that differ in gated and in ungated fields.
SettingsX ==
    [data_trace_enabled |-> TRUE, detailed_metrics_enabled |-> FALSE, logging_level |-> "INFO",
     throttling_burst_limit |-> GoInt(0, 100), throttling_rate_limit |-> 1]

SettingsY ==
    [data_trace_enabled |-> FALSE, detailed_metrics_enabled |-> TRUE, logging_level |-> "",
     throttling_burst_limit |-> GoInt(0, 0), throttling_rate_limit |-> 0]

WithKey(m, k) ==
    [data_trace_enabled |-> m.data_trace_enabled,
     detailed_metrics_enabled |-> m.detailed_metrics_enabled,
     logging_level |-> m.logging_level, route_key |-> k,
     throttling_burst_limit |-> m.throttling_burst_limit,
     throttling_rate_limit |-> m.throttling_rate_limit]

\* Sets of per-route entries with distinct route keys.
RouteSets ==
    UNION {{{WithKey(f[k], k) : k \in K} : f \in [K -> {SettingsX, SettingsY}]} :
           K \in SUBSET RouteKeys}

VarMaps == UNION {[K -> VarValues] : K \in SUBSET VarNames}

EmptyMap == [k \in {} |-> ""]

AccessLog1 == [destination_arn |-> "arn:logs", format |-> "$requestId"]

\* The configuration with every optional attribute unset.
DefaultCfg ==
    [access_log_settings |-> <<>>, auto_deploy |-> FALSE, client_certificate_id |-> "",
     default_route_settings |-> <<>>, deployment_id |-> "", description |-> "",
     route_settings |-> {}, stage_variables |-> EmptyMap]

FullCfg ==
    [access_log_settings |-> <<AccessLog1>>, auto_deploy |-> TRUE,
     client_certificate_id |-> "cert1", default_route_settings |-> <<SettingsX>>,
     deployment_id |-> "dep1", description |-> "desc1",
     route_settings |-> {WithKey(SettingsX, "A"), WithKey(SettingsY, "B")},
     stage_variables |-> [k \in VarNames |-> "1"]]

MutableFields ==
    {"access_log_settings", "auto_deploy", "client_certificate_id", "default_route_settings",
     "deployment_id", "description", "route_settings", "stage_variables"}

\* Configurations: every route-settings set and every variable map with the
\* other attributes unset, every attribute set alone, all set together, and
\* all set together with another description.
Configs ==
    {[DefaultCfg EXCEPT !.route_settings = r] : r \in RouteSets}
    \cup {[DefaultCfg EXCEPT !.stage_variables = v] : v \in VarMaps}
    \cup {[DefaultCfg EXCEPT ![f] = FullCfg[f]] : f \in MutableFields}
    \cup {FullCfg, [FullCfg EXCEPT !.description = "desc2"]}

(***************************************************************************)
(* The remote management API.  remote is <<>> (no stage) or <<stage>>.     *)
(* Every call takes an injection: "ok" (the API answers from its state),   *)
(* "gone" (the target was removed by someone else just before the call, so *)
(* the API answers not-found) or "err" (the call fails for another         *)
(* reason and changes nothing).                                            *)
(***************************************************************************)
NoStage == <<>>

NotFound == "NotFoundException"

OtherError == "InternalError"

Merge(f, g) == [k \in (DOMAIN f) \cup (DOMAIN g) |-> IF k \in DOMAIN g THEN g[k] ELSE f[k]]

Restrict(f, K) == [k \in K |-> f[k]]

\* A variable submitted with the empty string is removed.
DropEmpty(f) == Restrict(f, {k \in DOMAIN f : f[k] # ""})

\* An all-empty access-log settings object clears access logging.
StoreAccessLog(p) == IF p = NilPtr \/ p = Ptr(EmptyAccessLogSettings) THEN NilPtr ELSE p

OrEmptyMap(p) == IF p = NilPtr THEN EmptyMap ELSE p[1]

GetApiRemote(inj) ==
    IF inj = "err" THEN [err |-> OtherError, ProtocolType |-> ""]
    ELSE [err |-> "", ProtocolType |-> protocolType]

GetStageRemote(rem, apiId, stageName, inj) ==
    IF inj = "err" THEN [err |-> OtherError, remote |-> rem, out |-> NoStage]
    ELSE LET r == IF inj = "gone" THEN NoStage ELSE rem
         IN IF r = NoStage \/ apiId # ApiId \/ r[1].StageName # stageName
            THEN [err |-> NotFound, remote |-> r, out |-> NoStage]
            ELSE [err |-> "", remote |-> r, out |-> r]

CreateStageRemote(rem, req, inj) ==
    IF inj = "err" \/ rem # NoStage THEN [err |-> OtherError, remote |-> rem, StageName |-> <<>>]
    ELSE [err |-> "", StageName |-> req.StageName,
          remote |-> <<[StageName            |-> req.StageName,
                        ApiGatewayManaged    |-> FALSE,
                        AccessLogSettings    |-> StoreAccessLog(req.AccessLogSettings),
                        AutoDeploy           |-> req.AutoDeploy,
                        ClientCertificateId  |-> req.ClientCertificateId,
                        DefaultRouteSettings |-> req.DefaultRouteSettings,
                        DeploymentId         |-> req.DeploymentId,
                        Description          |-> req.Description,
                        RouteSettings        |-> OrEmptyMap(req.RouteSettings),
                        StageVariables       |-> DropEmpty(OrEmptyMap(req.StageVariables))]>>]

Keep(old, new) == IF new = NilPtr THEN old ELSE new

\* UpdateStage changes the fields the request carries: a route key of the
\* request replaces that key's settings, a variable is set, or removed when
\* its value is the empty string.
UpdateStageRemote(rem, req, inj) ==
    IF inj = "err" THEN [err |-> OtherError, remote |-> rem]
    ELSE IF rem = NoStage \/ rem[1].StageName # req.StageName
    THEN [err |-> NotFound, remote |-> rem]
    ELSE [err |-> "",
          remote |-> <<[StageName            |-> rem[1].StageName,
                        ApiGatewayManaged    |-> rem[1].ApiGatewayManaged,
                        AccessLogSettings    |-> IF req.AccessLogSettings = NilPtr
                                                 THEN rem[1].AccessLogSettings
                                                 ELSE StoreAccessLog(req.AccessLogSettings),
                        AutoDeploy           |-> Keep(rem[1].AutoDeploy, req.AutoDeploy),
                        ClientCertificateId  |-> Keep(rem[1].ClientCertificateId, req.ClientCertificateId),
                        DefaultRouteSettings |-> Keep(rem[1].DefaultRouteSettings, req.DefaultRouteSettings),
                        DeploymentId         |-> Keep(rem[1].DeploymentId, req.DeploymentId),
                        Description          |-> Keep(rem[1].Description, req.Description),
                        RouteSettings        |-> Merge(rem[1].RouteSettings, OrEmptyMap(req.RouteSettings)),
                        StageVariables       |-> DropEmpty(Merge(rem[1].StageVariables,
                                                                 OrEmptyMap(req.StageVariables)))]>>]

WithoutRouteKey(rem, k) ==
    IF rem = NoStage THEN rem
    ELSE <<[rem[1] EXCEPT !.RouteSettings =
                Restrict(rem[1].RouteSettings, (DOMAIN rem[1].RouteSettings) \ {k})]>>

DeleteRouteSettingsRemote(rem, stageName, routeKey, inj) ==
    IF inj = "err" THEN [err |-> OtherError, remote |-> rem]
    ELSE LET r == IF inj = "gone" THEN WithoutRouteKey(rem, routeKey) ELSE rem
         IN IF r = NoStage \/ r[1].StageName # stageName \/ routeKey \notin DOMAIN r[1].RouteSettings
            THEN [err |-> NotFound, remote |-> r]
            ELSE [err |-> "", remote |-> WithoutRouteKey(r, routeKey)]

DeleteStageRemote(rem, stageName, inj) ==
    IF inj = "err" THEN [err |-> OtherError, remote |-> rem]
    ELSE LET r == IF inj = "gone" THEN NoStage ELSE rem
         IN IF r = NoStage \/ r[1].StageName # stageName
            THEN [err |-> NotFound, remote |-> r]
            ELSE [err |-> "", remote |-> NoStage]

(***************************************************************************)
(* The local resource data: the identity and the attributes that d.Set     *)
(* writes.  Each handler is an operator from the data, the remote state,   *)
(* its inputs and the injections of its calls to the data and remote state *)
(* it leaves, the calls it issued (in order) and the error it returns      *)
(* ("" for none).                                                          *)
(***************************************************************************)
ZeroAttrs ==
    [access_log_settings |-> <<>>, api_id |-> <<>>, arn |-> <<>>, auto_deploy |-> FALSE,
     client_certificate_id |-> "", default_route_settings |-> <<>>, deployment_id |-> "",
     description |-> "", execution_arn |-> <<>>, invoke_url |-> <<>>, name |-> <<>>,
     route_settings |-> {}, stage_variables |-> EmptyMap]

NoData == [id |-> <<>>, attrs |-> ZeroAttrs]

Call(name, arg, err) == [call |-> name, arg |-> arg, err |-> err]

Outcome(dd, rem, calls, err) == [d |-> dd, remote |-> rem, calls |-> calls, err |-> err]

ErrMalformedImportID == "wrong format of import ID"

ErrQuickCreate == "was created via quick create"

ErrReadApi == "reading API Gateway v2 API"

ErrReadStage == "reading API Gateway v2 stage"

ErrCreateStage == "creating API Gateway v2 stage"

ErrUpdateStage == "updating API Gateway v2 stage"

ErrDeleteRouteSettings == "deleting API Gateway v2 stage route settings"

ErrDeleteStage == "deleting API Gateway v2 stage"

StageArn(apiId, stageName) ==
    <<"arn", Partition, "apigateway", Region, "", <<"/apis/", apiId, "/stages/", stageName>>>>

ExecutionArn(apiId, stageName) ==
    <<"arn", Partition, "execute-api", Region, AccountID, <<apiId, "/", stageName>>>>

\* The https form with the stage name appended also for "$default".
InvokeUrlNoSentinel(old, protocol, apiId, stageName) ==
    IF protocol = ProtocolTypeWebsocket
    THEN <<"wss://", apiId, ".execute-api.", Region, ".amazonaws.com/", stageName>>
    ELSE IF protocol = ProtocolTypeHttp
    THEN <<"https://", apiId, ".execute-api.", Region, ".amazonaws.com/", stageName>>
    ELSE old

\* The switch on the protocol type at the end of resourceStageRead.
InvokeUrl(old, protocol, apiId, stageName) ==
    IF protocol = ProtocolTypeWebsocket
    THEN <<"wss://", apiId, ".execute-api.", Region, ".amazonaws.com/", stageName>>
    ELSE IF protocol = ProtocolTypeHttp
    THEN IF stageName = defaultStageName
         THEN <<"https://", apiId, ".execute-api.", Region, ".amazonaws.com/">>
         ELSE <<"https://", apiId, ".execute-api.", Region, ".amazonaws.com/", stageName>>
    ELSE old

\* The attributes resourceStageRead sets from the GetStage response.
AttrsFromStage(attrs, resp) ==
    [attrs EXCEPT
        !.access_log_settings    = flattenAccessLogSettings(resp.AccessLogSettings),
        !.arn                    = StageArn(attrs.api_id, resp.StageName),
        !.auto_deploy            = ToBool(resp.AutoDeploy),
        !.client_certificate_id  = ToString(resp.ClientCertificateId),
        !.default_route_settings = flattenDefaultRouteSettings(resp.DefaultRouteSettings),
        !.deployment_id          = ToString(resp.DeploymentId),
        !.description            = ToString(resp.Description),
        !.execution_arn          = ExecutionArn(attrs.api_id, resp.StageName),
        !.name                   = resp.StageName,
        !.route_settings         = flattenRouteSettings(resp.RouteSettings),
        !.stage_variables        = resp.StageVariables]

\* Injections of the calls of Read: GetStage, then GetApi.
ReadScripts ==
    {[stage |-> "err", api2 |-> "skip"], [stage |-> "gone", api2 |-> "skip"],
     [stage |-> "ok", api2 |-> "err"], [stage |-> "ok", api2 |-> "ok"]}

\* The not-found answer never taken as "no longer exists".
NotFoundClearsNever(err, isNewResource) == FALSE

\* The not-found answer taken as "no longer exists" for a new resource too.
NotFoundClearsAlways(err, isNewResource) == err = NotFound

\* The not-found answer that Read takes as "no longer exists".
NotFoundClears(err, isNewResource) == err = NotFound /\ ~isNewResource

resourceStageRead(dd, rem, isNewResource, calls, rs) ==
    LET apiId == dd.attrs.api_id
        g     == GetStageRemote(rem, apiId, dd.id, rs.stage)
        c1    == Append(calls, Call("GetStage", dd.id, g.err))
    IN IF NotFoundClears(g.err, isNewResource)
       THEN Outcome([dd EXCEPT !.id = <<>>], g.remote, c1, "")
       ELSE IF g.err # ""
       THEN Outcome(dd, g.remote, c1, ErrReadStage)
       ELSE LET d1 == [dd EXCEPT !.attrs = AttrsFromStage(dd.attrs, g.out[1])]
                a  == GetApiRemote(rs.api2)
                c2 == Append(c1, Call("GetApi", apiId, a.err))
            IN IF a.err # ""
               THEN Outcome(d1, g.remote, c2, ErrReadApi)
               ELSE Outcome([d1 EXCEPT !.attrs.invoke_url =
                                InvokeUrl(d1.attrs.invoke_url, a.ProtocolType, apiId,
                                          g.out[1].StageName)],
                            g.remote, c2, "")

(***************************************************************************)
(* Create.                                                                 *)
(***************************************************************************)
\* d.GetOk: the value is used when it is not the zero value of its type.
CreateStageInput(apiId, name, cfg, protocol) ==
    [ApiId                |-> apiId,
     AutoDeploy           |-> Ptr(cfg.auto_deploy),
     StageName            |-> name,
     AccessLogSettings    |-> IF cfg.access_log_settings # <<>>
                              THEN Ptr(expandAccessLogSettings(cfg.access_log_settings))
                              ELSE NilPtr,
     ClientCertificateId  |-> IF cfg.client_certificate_id # ""
                              THEN Ptr(cfg.client_certificate_id) ELSE NilPtr,
     DefaultRouteSettings |-> IF cfg.default_route_settings # <<>>
                              THEN Ptr(expandDefaultRouteSettings(cfg.default_route_settings, protocol))
                              ELSE NilPtr,
     DeploymentId         |-> IF cfg.deployment_id # "" THEN Ptr(cfg.deployment_id) ELSE NilPtr,
     Description          |-> IF cfg.description # "" THEN Ptr(cfg.description) ELSE NilPtr,
     RouteSettings        |-> IF cfg.route_settings # {}
                              THEN Ptr(expandRouteSettings(cfg.route_settings, protocol))
                              ELSE NilPtr,
     StageVariables       |-> IF cfg.stage_variables # EmptyMap
                              THEN Ptr(cfg.stage_variables) ELSE NilPtr]

\* The resource data Create is called with: the planned attributes, no identity.
NewData(cfg, name) ==
    [id |-> <<>>,
     attrs |-> [ZeroAttrs EXCEPT
        !.access_log_settings = cfg.access_log_settings, !.api_id = ApiId,
        !.auto_deploy = cfg.auto_deploy, !.client_certificate_id = cfg.client_certificate_id,
        !.default_route_settings = cfg.default_route_settings,
        !.deployment_id = cfg.deployment_id, !.description = cfg.description,
        !.name = name, !.route_settings = cfg.route_settings,
        !.stage_variables = cfg.stage_variables]]

SkipRead == [stage |-> "skip", api2 |-> "skip"]

\* Injections of the calls of Create: GetApi, CreateStage, then those of Read.
CreateScripts ==
    {[api |-> "err", create |-> "skip", read |-> SkipRead],
     [api |-> "ok", create |-> "err", read |-> SkipRead]}
    \cup {[api |-> "ok", create |-> "ok", read |-> r] : r \in ReadScripts}

\* A create that adopts the configured name as identity before CreateStage
\* has answered.
resourceStageCreateEarlyId(dd, rem, cfg, cs) ==
    LET apiId == dd.attrs.api_id
        a     == GetApiRemote(cs.api)
        c1    == <<Call("GetApi", apiId, a.err)>>
    IN IF a.err # ""
       THEN Outcome(dd, rem, c1, ErrReadApi)
       ELSE LET req  == CreateStageInput(apiId, dd.attrs.name, cfg, a.ProtocolType)
                resp == CreateStageRemote(rem, req, cs.create)
                c2   == Append(c1, Call("CreateStage", req, resp.err))
            IN IF resp.err # ""
               THEN Outcome([dd EXCEPT !.id = dd.attrs.name], rem, c2, ErrCreateStage)
               ELSE resourceStageRead([dd EXCEPT !.id = resp.StageName], resp.remote,
                                      TRUE, c2, cs.read)

resourceStageCreate(dd, rem, cfg, cs) ==
    LET apiId == dd.attrs.api_id
        a     == GetApiRemote(cs.api)
        c1    == <<Call("GetApi", apiId, a.err)>>
    IN IF a.err # ""
       THEN Outcome(dd, rem, c1, ErrReadApi)
       ELSE LET req  == CreateStageInput(apiId, dd.attrs.name, cfg, a.ProtocolType)
                resp == CreateStageRemote(rem, req, cs.create)
                c2   == Append(c1, Call("CreateStage", req, resp.err))
            IN IF resp.err # ""
               THEN Outcome(dd, rem, c2, ErrCreateStage)
               ELSE resourceStageRead([dd EXCEPT !.id = resp.StageName], resp.remote,
                                      TRUE, c2, cs.read)

(***************************************************************************)
(* Update.                                                                 *)
(***************************************************************************)
\* The planned value of each mutable attribute: the configured value, but
\* the prior one for a computed attribute left unset (deployment_id) and
\* for a default_route_settings block missing from the configuration.
Plan(attrs, cfg) ==
    [cfg EXCEPT
        !.deployment_id = IF cfg.deployment_id = "" THEN attrs.deployment_id
                          ELSE cfg.deployment_id,
        !.default_route_settings =
            IF cfg.default_route_settings = <<>> /\ Len(attrs.default_route_settings) = 1
            THEN attrs.default_route_settings ELSE cfg.default_route_settings]

\* Every attribute taken as changed.
HasChangeAlways(attrs, plan, f) == TRUE

\* d.HasChange: the planned value differs from the prior one.
HasChange(attrs, plan, f) == attrs[f] # plan[f]

\* The guard of the update phase left out.
HasChangesAlways(attrs, plan) == TRUE

HasChanges(attrs, plan) == \E f \in MutableFields : HasChange(attrs, plan, f)

\* flex.DiffStringValueMaps: the entries to add (new or changed keys, with
\* their new values) and to remove (keys of the old map absent from the new).
DiffStringValueMaps(o, n) ==
    [add |-> Restrict(n, {k \in DOMAIN n : k \notin DOMAIN o \/ o[k] # n[k]}),
     del |-> Restrict(o, (DOMAIN o) \ (DOMAIN n))]

\* The removals sent with their old values, not blanked.
StageVariablesOfUnblanked(o, n) ==
    Merge(DiffStringValueMaps(o, n).del, DiffStringValueMaps(o, n).add)

\* The variable map of the request: removals as "", then the additions.
StageVariablesOf(o, n) ==
    LET diff == DiffStringValueMaps(o, n)
        del  == [k \in DOMAIN diff.del |-> ""]
    IN Merge(del, diff.add)

\* The difference taken the wrong way round.
RouteSettingsToDeleteSwapped(os, ns) == ns \ os

\* os.Difference(ns): the old entries that are not entries of the new set.
RouteSettingsToDelete(os, ns) == os \ ns

\* Only the entries that are new or changed.
RouteSettingsToUpsertAddedOnly(os, ns) == ns \ os

\* ns.List(): every entry of the new set goes into the request.
RouteSettingsToUpsert(os, ns) == ns

UpdateStageInput(dd, plan, protocol) ==
    LET ch(f) == HasChange(dd.attrs, plan, f)
    IN [ApiId                |-> dd.attrs.api_id,
        StageName            |-> dd.id,
        AccessLogSettings    |-> IF ch("access_log_settings")
                                 THEN Ptr(expandAccessLogSettings(plan.access_log_settings))
                                 ELSE NilPtr,
        AutoDeploy           |-> IF ch("auto_deploy") THEN Ptr(plan.auto_deploy) ELSE NilPtr,
        ClientCertificateId  |-> IF ch("client_certificate_id")
                                 THEN Ptr(plan.client_certificate_id) ELSE NilPtr,
        DefaultRouteSettings |-> IF ch("default_route_settings")
                                 THEN Ptr(expandDefaultRouteSettings(plan.default_route_settings,
                                                                     protocol))
                                 ELSE NilPtr,
        DeploymentId         |-> IF ch("deployment_id") THEN Ptr(plan.deployment_id) ELSE NilPtr,
        Description          |-> IF ch("description") THEN Ptr(plan.description) ELSE NilPtr,
        RouteSettings        |-> IF ch("route_settings")
                                 THEN Ptr(expandRouteSettings(
                                              RouteSettingsToUpsert(dd.attrs.route_settings,
                                                                    plan.route_settings),
                                              protocol))
                                 ELSE NilPtr,
        StageVariables       |-> IF ch("stage_variables")
                                 THEN Ptr(StageVariablesOf(dd.attrs.stage_variables,
                                                           plan.stage_variables))
                                 ELSE NilPtr]

\* Not-found from DeleteRouteSettings taken as a failure like any other.
DeleteRouteSettingsToleratesNothing(err) == FALSE

\* The answer of DeleteRouteSettings after which the loop continues.
DeleteRouteSettingsTolerates(err) == err = NotFound

\* The loop over os.Difference(ns).List(): todo is the list, in the order
\* the loop takes it, each key with the injection of its delete call.
RECURSIVE DeleteRouteSettingsLoop(_, _, _, _)
DeleteRouteSettingsLoop(rem, stageName, todo, calls) ==
    IF todo = <<>> THEN [remote |-> rem, calls |-> calls, err |-> ""]
    ELSE LET r == DeleteRouteSettingsRemote(rem, stageName, todo[1].key, todo[1].inj)
             c == Append(calls, Call("DeleteRouteSettings", todo[1].key, r.err))
         IN IF DeleteRouteSettingsTolerates(r.err)
            THEN DeleteRouteSettingsLoop(r.remote, stageName, Tail(todo), c)
            ELSE IF r.err # ""
            THEN [remote |-> r.remote, calls |-> c, err |-> ErrDeleteRouteSettings]
            ELSE DeleteRouteSettingsLoop(r.remote, stageName, Tail(todo), c)

\* The runs of the delete loop over the keys K: every order of the keys,
\* every injection of each call, cut after the first call that fails.
RECURSIVE DelRuns(_)
DelRuns(K) ==
    IF K = {} THEN {<<>>}
    ELSE UNION {{<<[key |-> k, inj |-> "err"]>>}
                \cup {<<[key |-> k, inj |-> i]>> \o r : i \in {"ok", "gone"}, r \in DelRuns(K \ {k})}
                : k \in K}

DelRunFails(ds) == ds # <<>> /\ ds[Len(ds)].inj = "err"

\* Injections of the calls of Update: GetApi, the per-key deletes,
\* UpdateStage, then those of Read.
UpdateScripts(changed, K) ==
    IF ~changed
    THEN {[api |-> "skip", dels |-> <<>>, upd |-> "skip", read |-> r] : r \in ReadScripts}
    ELSE {[api |-> "err", dels |-> <<>>, upd |-> "skip", read |-> SkipRead]}
         \cup {[api |-> "ok", dels |-> ds, upd |-> "skip", read |-> SkipRead] :
               ds \in {x \in DelRuns(K) : DelRunFails(x)}}
         \cup {[api |-> "ok", dels |-> ds, upd |-> "err", read |-> SkipRead] :
               ds \in {x \in DelRuns(K) : ~DelRunFails(x)}}
         \cup {[api |-> "ok", dels |-> ds, upd |-> "ok", read |-> r] :
               ds \in {x \in DelRuns(K) : ~DelRunFails(x)}, r \in ReadScripts}

\* The update phase, run when a mutable attribute changed: GetApi, the
\* per-key deletes, UpdateStage.
UpdatePhase(dd, rem, plan, us) ==
    LET apiId == dd.attrs.api_id
        a     == GetApiRemote(us.api)
        c1    == <<Call("GetApi", apiId, a.err)>>
    IN IF a.err # ""
       THEN Outcome(dd, rem, c1, ErrReadApi)
       ELSE LET req  == UpdateStageInput(dd, plan, a.ProtocolType)
                loop == IF HasChange(dd.attrs, plan, "route_settings")
                        THEN DeleteRouteSettingsLoop(rem, dd.id, us.dels, c1)
                        ELSE [remote |-> rem, calls |-> c1, err |-> ""]
            IN IF loop.err # ""
               THEN Outcome(dd, loop.remote, loop.calls, loop.err)
               ELSE LET u == UpdateStageRemote(loop.remote, req, us.upd)
                    IN Outcome(dd, u.remote, Append(loop.calls, Call("UpdateStage", req, u.err)),
                               IF u.err # "" THEN ErrUpdateStage ELSE "")

\* An update that returns at once, without a Read, when nothing changed.
resourceStageUpdateNoRead(dd, rem, cfg, us) ==
    IF ~HasChanges(dd.attrs, Plan(dd.attrs, cfg))
    THEN Outcome(dd, rem, <<>>, "")
    ELSE LET ph == UpdatePhase(dd, rem, Plan(dd.attrs, cfg), us)
         IN IF ph.err # "" THEN ph
            ELSE resourceStageRead(dd, ph.remote, FALSE, ph.calls, us.read)

resourceStageUpdate(dd, rem, cfg, us) ==
    IF ~HasChanges(dd.attrs, Plan(dd.attrs, cfg))
    THEN resourceStageRead(dd, rem, FALSE, <<>>, us.read)
    ELSE LET ph == UpdatePhase(dd, rem, Plan(dd.attrs, cfg), us)
         IN IF ph.err # "" THEN ph
            ELSE resourceStageRead(dd, ph.remote, FALSE, ph.calls, us.read)

(***************************************************************************)
(* Delete and Import.                                                      *)
(***************************************************************************)
\* Not-found from DeleteStage taken as a failure like any other.
DeleteToleratesNothing(err) == FALSE

\* The answer of DeleteStage that Delete takes as success.
DeleteTolerates(err) == err = NotFound

\* A delete that clears the identity before it looks at the answer.
resourceStageDeleteClearsId(dd, rem, inj) ==
    LET r == DeleteStageRemote(rem, dd.id, inj)
        c == <<Call("DeleteStage", dd.id, r.err)>>
    IN Outcome([dd EXCEPT !.id = <<>>], r.remote, c,
               IF r.err \in {"", NotFound} THEN "" ELSE ErrDeleteStage)

\* A delete that clears the identity once the stage is gone.
resourceStageDeleteClearsIdOnSuccess(dd, rem, inj) ==
    LET r == DeleteStageRemote(rem, dd.id, inj)
        c == <<Call("DeleteStage", dd.id, r.err)>>
    IN IF r.err \in {"", NotFound} THEN Outcome([dd EXCEPT !.id = <<>>], r.remote, c, "")
       ELSE Outcome(dd, r.remote, c, ErrDeleteStage)

resourceStageDelete(dd, rem, inj) ==
    LET r == DeleteStageRemote(rem, dd.id, inj)
        c == <<Call("DeleteStage", dd.id, r.err)>>
    IN IF DeleteTolerates(r.err) THEN Outcome(dd, r.remote, c, "")
       ELSE IF r.err # "" THEN Outcome(dd, r.remote, c, ErrDeleteStage)
       ELSE Outcome(dd, r.remote, c, "")

IndexOfSep(s) == CHOOSE i \in 1..Len(s) : s[i] = "/" /\ \A j \in 1..(i - 1) : s[j] # "/"

\* strings.Split(s, "/")
RECURSIVE Split(_)
Split(s) ==
    IF \A i \in 1..Len(s) : s[i] # "/" THEN <<s>>
    ELSE <<SubSeq(s, 1, IndexOfSep(s) - 1)>> \o Split(SubSeq(s, IndexOfSep(s) + 1, Len(s)))

MalformedImportID(parts) == Len(parts) # 2

\* The quick-create mark of the record never looked at.
QuickCreatedNever(stage) == FALSE

\* aws.ToBool(resp.ApiGatewayManaged): the stage was made by quick create.
QuickCreated(stage) == stage.ApiGatewayManaged

\* dd.id is the identifier given to the import.
resourceStageImport(dd, rem, inj) ==
    LET parts == Split(dd.id)
    IN IF MalformedImportID(parts)
       THEN Outcome(dd, rem, <<>>, ErrMalformedImportID)
       ELSE LET apiId     == parts[1]
                stageName == parts[2]
                g == GetStageRemote(rem, apiId, stageName, inj)
                c == <<Call("GetStage", stageName, g.err)>>
            IN IF g.err # "" THEN Outcome(dd, g.remote, c, g.err)
               ELSE IF QuickCreated(g.out[1])
               THEN Outcome(dd, g.remote, c, ErrQuickCreate)
               ELSE Outcome([id |-> stageName, attrs |-> [dd.attrs EXCEPT !.api_id = apiId]],
                            g.remote, c, "")

(***************************************************************************)
(* The lifecycle: the host calls one handler at a time and takes its       *)
(* result.                                                                 *)
(***************************************************************************)
NoOp == [name |-> "", err |-> "", calls |-> <<>>, before |-> NoData,
         remoteBefore |-> NoStage, cfg |-> DefaultCfg]

NoConv == [kind |-> "none"]

\* A stage made outside this resource, by quick create (managed) or not.
PreExistingStage(name, managed) ==
    [StageName |-> name, ApiGatewayManaged |-> managed, AccessLogSettings |-> NilPtr,
     AutoDeploy |-> Ptr(managed), ClientCertificateId |-> NilPtr,
     DefaultRouteSettings |-> NilPtr, DeploymentId |-> NilPtr, Description |-> NilPtr,
     RouteSettings |-> [k \in {} |-> EmptyRouteSettings], StageVariables |-> EmptyMap]

ImportChars == {"a", "p", "/"}

\* Import identifiers: every string over ImportChars of 1..MaxImportIdLen
\* characters, and the well-formed identifier of each stage name.
ImportIds ==
    UNION {[1..n -> ImportChars] : n \in 1..MaxImportIdLen}
    \cup {ApiId \o <<"/">> \o n : n \in StageNames}

Init ==
    /\ protocolType \in ProtocolTypes
    /\ cfgName \in StageNames
    /\ remote \in {NoStage} \cup {<<PreExistingStage(cfgName, m)>> : m \in BOOLEAN}
    /\ d = NoData
    /\ refreshed = FALSE
    /\ pc = "idle"
    /\ op = NoOp
    /\ conv = NoConv

Ran(name, before, cfg, out) ==
    /\ d' = out.d
    /\ remote' = out.remote
    /\ pc' = "returned"
    /\ op' = [name |-> name, err |-> out.err, calls |-> out.calls, before |-> before,
              remoteBefore |-> remote, cfg |-> cfg]
    /\ UNCHANGED <<protocolType, cfgName, refreshed, conv>>

Create ==
    /\ pc = "idle"
    /\ d.id = <<>>
    /\ \E cfg \in Configs, cs \in CreateScripts :
          Ran("Create", NewData(cfg, cfgName), cfg,
              resourceStageCreate(NewData(cfg, cfgName), remote, cfg, cs))

Read ==
    /\ pc = "idle"
    /\ d.id # <<>>
    /\ \E rs \in ReadScripts :
          Ran("Read", d, DefaultCfg, resourceStageRead(d, remote, FALSE, <<>>, rs))

\* The route keys of the entries the delete loop of Update runs over.
DeleteKeys(attrs, plan) ==
    IF HasChange(attrs, plan, "route_settings")
    THEN {m.route_key : m \in RouteSettingsToDelete(attrs.route_settings, plan.route_settings)}
    ELSE {}

\* The host plans an update against attributes it has just refreshed: an
\* update follows a create, read or update that returned without error.
Update ==
    /\ pc = "idle"
    /\ d.id # <<>>
    /\ refreshed
    /\ \E cfg \in Configs :
          \E us \in UpdateScripts(HasChanges(d.attrs, Plan(d.attrs, cfg)),
                                  DeleteKeys(d.attrs, Plan(d.attrs, cfg))) :
             Ran("Update", d, cfg, resourceStageUpdate(d, remote, cfg, us))

Delete ==
    /\ pc = "idle"
    /\ d.id # <<>>
    /\ \E inj \in {"ok", "gone", "err"} :
          Ran("Delete", d, DefaultCfg, resourceStageDelete(d, remote, inj))

Import ==
    /\ pc = "idle"
    /\ d.id = <<>>
    /\ \E id \in ImportIds, inj \in {"ok", "gone", "err"} :
          Ran("Import", [id |-> id, attrs |-> ZeroAttrs], DefaultCfg,
              resourceStageImport([id |-> id, attrs |-> ZeroAttrs], remote, inj))

\* The host takes the handler's result: it drops the resource data of a
\* failed import, of a successful delete and of a resource whose identity
\* is unset, and keeps it otherwise.
HostReturn ==
    /\ pc = "returned"
    /\ pc' = "idle"
    /\ op' = NoOp
    /\ d' = IF \/ d.id = <<>>
               \/ (op.name = "Import" /\ op.err # "")
               \/ (op.name = "Delete" /\ op.err = "")
            THEN NoData ELSE d
    /\ refreshed' = (op.name \in {"Create", "Read", "Update"} /\ op.err = "" /\ d.id # <<>>)
    /\ UNCHANGED <<protocolType, cfgName, remote, conv>>

Next == Create \/ Read \/ Update \/ Delete \/ Import \/ HostReturn

Spec == Init /\ [][Next]_vars

(***************************************************************************)
(* The converters on their own: an entry and a protocol type are drawn,    *)
(* the entry is expanded and the result flattened.                         *)
(***************************************************************************)
\* Burst limits below, at and above the largest int32.
BurstLimits ==
    {GoInt(h, l) : h \in {0, 1, 2 ^ 15 - 1, 2 ^ 15, 2 ^ 16, 2 ^ 16 + 1}, l \in {0, 100}}

InInt32Range(v) == v.hi >= -(2 ^ 15) /\ v.hi < 2 ^ 15

ConvEntries ==
    [data_trace_enabled : BOOLEAN, detailed_metrics_enabled : BOOLEAN,
     logging_level : LoggingLevels, route_key : RouteKeys,
     throttling_burst_limit : BurstLimits, throttling_rate_limit : 0..MaxRateLimit]

\* Configuration entries of default_route_settings: no route key.
DefaultEntries ==
    [data_trace_enabled : BOOLEAN, detailed_metrics_enabled : BOOLEAN,
     logging_level : LoggingLevels,
     throttling_burst_limit : BurstLimits, throttling_rate_limit : 0..MaxRateLimit]

\* Configuration lists of access_log_settings: empty, one null element, or
\* one entry with each field empty or set.
AccessLogLists ==
    {<<>>, <<NullEntry>>}
    \cup {<<s>> : s \in [destination_arn : {"", "arn:logs", "arn:firehose"},
                         format : {"", "$requestId", "json"}]}

InitConv ==
    /\ protocolType = ProtocolTypeHttp
    /\ cfgName = defaultStageName
    /\ remote = NoStage
    /\ d = NoData
    /\ refreshed = FALSE
    /\ pc = "idle"
    /\ op = NoOp
    /\ conv \in [kind : {"route"}, done : {FALSE}, entry : ConvEntries,
                 protocol : ProtocolTypes, expanded : {<<>>}, flat : {{}}, again : {<<>>}]
              \cup [kind : {"default"}, done : {FALSE}, entry : DefaultEntries,
                    protocol : ProtocolTypes, expanded : {<<>>}, flat : {<<>>}, again : {<<>>}]
              \cup [kind : {"access"}, done : {FALSE}, list : AccessLogLists,
                    expanded : {<<>>}, flat : {<<>>}, flatNil : {<<>>}]

\* One entry through expandRouteSettings, the result through
\* flattenRouteSettings, and that through expandRouteSettings again.
ConvertRouteSettings ==
    /\ conv.kind = "route"
    /\ ~conv.done
    /\ conv' = [conv EXCEPT
                  !.done = TRUE,
                  !.expanded = expandRouteSettings({conv.entry}, conv.protocol),
                  !.flat = flattenRouteSettings(expandRouteSettings({conv.entry}, conv.protocol)),
                  !.again = expandRouteSettings(
                                flattenRouteSettings(expandRouteSettings({conv.entry},
                                                                         conv.protocol)),
                                conv.protocol)]
    /\ UNCHANGED <<protocolType, cfgName, remote, d, refreshed, pc, op>>

\* The same for expandDefaultRouteSettings and flattenDefaultRouteSettings.
ConvertDefaultRouteSettings ==
    /\ conv.kind = "default"
    /\ ~conv.done
    /\ conv' = [conv EXCEPT
                  !.done = TRUE,
                  !.expanded = expandDefaultRouteSettings(<<conv.entry>>, conv.protocol),
                  !.flat = flattenDefaultRouteSettings(
                               Ptr(expandDefaultRouteSettings(<<conv.entry>>, conv.protocol))),
                  !.again = expandDefaultRouteSettings(
                                flattenDefaultRouteSettings(
                                    Ptr(expandDefaultRouteSettings(<<conv.entry>>,
                                                                   conv.protocol))),
                                conv.protocol)]
    /\ UNCHANGED <<protocolType, cfgName, remote, d, refreshed, pc, op>>

\* A configuration list through expandAccessLogSettings and the result
\* through flattenAccessLogSettings; flattenAccessLogSettings of nil.
ConvertAccessLogSettings ==
    /\ conv.kind = "access"
    /\ ~conv.done
    /\ conv' = [conv EXCEPT
                  !.done = TRUE,
                  !.expanded = expandAccessLogSettings(conv.list),
                  !.flat = flattenAccessLogSettings(Ptr(expandAccessLogSettings(conv.list))),
                  !.flatNil = flattenAccessLogSettings(NilPtr)]
    /\ UNCHANGED <<protocolType, cfgName, remote, d, refreshed, pc, op>>

NextConv == ConvertRouteSettings \/ ConvertDefaultRouteSettings \/ ConvertAccessLogSettings

SpecConv == InitConv /\ [][NextConv]_vars

(***************************************************************************)
(* Properties.                                                             *)
(***************************************************************************)
Returned(name) == pc = "returned" /\ op.name = name

\* The positions, in the order of issue, of the calls to c.
CallIdx(c) == {i \in 1..Len(op.calls) : op.calls[i].call = c}

MutatingCalls == {"CreateStage", "UpdateStage", "DeleteStage", "DeleteRouteSettings"}

\* The old and the planned value of the handler that ran.
OldAttrs == op.before.attrs

NewPlan == Plan(op.before.attrs, op.cfg)

Keys(S) == {m.route_key : m \in S}

DeletedKeys == {op.calls[i].arg : i \in CallIdx("DeleteRouteSettings")}

RouteSettingsChanged == Returned("Update") /\ OldAttrs.route_settings # NewPlan.route_settings

StageVariablesChanged == Returned("Update") /\ OldAttrs.stage_variables # NewPlan.stage_variables

\* The request of the UpdateStage call of the handler that ran.
UpdateRequest == op.calls[CHOOSE i \in CallIdx("UpdateStage") : TRUE].arg

\* C1 as stated: when route_settings changed and the delete loop ran to its
\* end, the route keys deleted are keys(old) minus keys(new).
C1_AsStated ==
    (RouteSettingsChanged /\ CallIdx("UpdateStage") # {}) =>
        DeletedKeys = Keys(OldAttrs.route_settings) \ Keys(NewPlan.route_settings)

\* C1, amended: when route_settings changed, the route keys deleted are those
\* of the old entries that are not, with all their settings, entries of the
\* new set: the keys absent from the new set and the keys whose settings
\* differ. Each is deleted once; a key whose entry is the same in both sets
\* is never deleted, also in a run that stops early.
C1_DeletesChangedAndRemoved ==
    RouteSettingsChanged =>
        LET O == OldAttrs.route_settings
            N == NewPlan.route_settings
            expected == {k \in Keys(O) : \A m \in O : m.route_key = k => m \notin N}
        IN /\ DeletedKeys \subseteq expected
           /\ Cardinality(CallIdx("DeleteRouteSettings")) = Cardinality(DeletedKeys)
           /\ (CallIdx("UpdateStage") # {} => DeletedKeys = expected)

\* C1's case: an update has removed one key and changed the settings of
\* another, and reached UpdateStage.
C1_Witness ==
    /\ RouteSettingsChanged
    /\ CallIdx("UpdateStage") # {}
    /\ Keys(OldAttrs.route_settings) = {"A", "B"}
    /\ Keys(NewPlan.route_settings) = {"A"}
    /\ DeletedKeys = {"A", "B"}

\* C2: when stage_variables changed, the variable map of the UpdateStage
\* request maps every key of the old map absent from the new one to "",
\* every key of the new map that is new or changed to its new value, and
\* holds no other key; a changed key carries its new value, not the marker
\* of a removal.
C2_VariablesRequest ==
    (StageVariablesChanged /\ CallIdx("UpdateStage") # {}) =>
        LET O == OldAttrs.stage_variables
            N == NewPlan.stage_variables
            removed == (DOMAIN O) \ (DOMAIN N)
            upserted == {k \in DOMAIN N : k \notin DOMAIN O \/ O[k] # N[k]}
            sent == UpdateRequest.StageVariables
        IN /\ sent # NilPtr
           /\ DOMAIN sent[1] = removed \cup upserted
           /\ \A k \in removed : sent[1][k] = ""
           /\ \A k \in upserted : sent[1][k] = N[k]

\* C2's case: an update has removed a variable, changed another and sent
\* both in one request.
C2_Witness ==
    /\ StageVariablesChanged
    /\ CallIdx("UpdateStage") # {}
    /\ OldAttrs.stage_variables = [k \in {"a", "b"} |-> "1"]
    /\ NewPlan.stage_variables = [k \in {"b"} |-> "2"]
    /\ UpdateRequest.StageVariables = Ptr([k \in {"a", "b"} |-> IF k = "a" THEN "" ELSE "2"])

\* C3: an update in which no mutable attribute changed issues no UpdateStage,
\* no DeleteRouteSettings and no GetApi of the update phase, and performs
\* exactly one Read: one GetStage, first, then at most the GetApi of Read.
C3_NoChangeNoMutation ==
    (Returned("Update") /\ \A f \in MutableFields : OldAttrs[f] = NewPlan[f]) =>
        /\ \A i \in 1..Len(op.calls) : op.calls[i].call \notin MutatingCalls
        /\ Len(op.calls) \in {1, 2}
        /\ op.calls[1].call = "GetStage"
        /\ (Len(op.calls) = 2 => op.calls[2].call = "GetApi")

\* C3's case: an update with an empty change-set has run against a stage
\* with route settings and returned without error.
C3_Witness ==
    /\ Returned("Update")
    /\ \A f \in MutableFields : OldAttrs[f] = NewPlan[f]
    /\ OldAttrs.route_settings # {}
    /\ op.err = ""
    /\ Len(op.calls) = 2

GetStageSucceeded == \E i \in CallIdx("GetStage") : op.calls[i].err = ""

GetStageNotFound == \E i \in CallIdx("GetStage") : op.calls[i].err = NotFound

CreateStageSucceeded == \E i \in CallIdx("CreateStage") : op.calls[i].err = ""

\* C4 as stated: a handler that returns an error leaves the identity and
\* every attribute as they were before the call.
C4_AsStated == (pc = "returned" /\ op.err # "") => d = op.before

\* C4, amended: a handler that returns an error leaves the local state as it
\* was before the call except for what it wrote after an earlier call of
\* the same run succeeded: the identity differs only in Create once
\* CreateStage succeeded (it is then the created stage's name), and the
\* attributes differ only when GetStage succeeded and the GetApi lookup of
\* Read failed (invoke_url and api_id are still unchanged). Delete and Import
\* change nothing on error, and a run whose GetStage fails changes no
\* attribute.
C4_ErrorKeepsUnconfirmedState ==
    (pc = "returned" /\ op.err # "") =>
        /\ (op.name \in {"Delete", "Import"} => d = op.before)
        /\ (d.id # op.before.id => op.name = "Create" /\ CreateStageSucceeded)
        /\ (CreateStageSucceeded => d.id = cfgName)
        /\ (~GetStageSucceeded => d.attrs = op.before.attrs)
        /\ (d.attrs # op.before.attrs => op.err = ErrReadApi)
        /\ d.attrs.invoke_url = op.before.attrs.invoke_url
        /\ d.attrs.api_id = op.before.attrs.api_id

\* C4's case: a Read has failed at its GetApi lookup after GetStage
\* succeeded, and the attributes it had set differ from those before.
C4_Witness ==
    /\ Returned("Read")
    /\ op.err = ErrReadApi
    /\ GetStageSucceeded
    /\ d.attrs # op.before.attrs
    /\ d.id = op.before.id

\* The mutating calls the update after this one would issue, for the same
\* configuration, whatever its calls answer.
FollowingUpdateMutations ==
    LET plan == Plan(d.attrs, op.cfg)
    IN {c \in MutatingCalls :
          \E us \in UpdateScripts(HasChanges(d.attrs, plan), DeleteKeys(d.attrs, plan)) :
              LET r == resourceStageUpdate(d, remote, op.cfg, us)
              IN \E i \in 1..Len(r.calls) : r.calls[i].call = c}

\* An update that returned without error, whose calls all succeeded, from a
\* remote record whose route settings and variables were the old snapshot.
ConvergedUpdate ==
    /\ Returned("Update")
    /\ op.err = ""
    /\ \A i \in 1..Len(op.calls) : op.calls[i].err = ""
    /\ op.remoteBefore # NoStage
    /\ flattenRouteSettings(op.remoteBefore[1].RouteSettings) = OldAttrs.route_settings
    /\ op.remoteBefore[1].StageVariables = OldAttrs.stage_variables

RemoteConverged ==
    /\ remote # NoStage
    /\ remote[1].RouteSettings = expandRouteSettings(NewPlan.route_settings, protocolType)
    /\ remote[1].StageVariables = DropEmpty(NewPlan.stage_variables)

\* C5: after such an update the remote route settings are the expanded new
\* route_settings and the remote variables the new stage_variables (less
\* those with an empty value), and the update that follows with the same
\* configuration issues no remote mutation.
C5_AsStated == ConvergedUpdate => (RemoteConverged /\ FollowingUpdateMutations = {})

\* The order of the calls of an update: no DeleteRouteSettings after an
\* UpdateStage, no UpdateStage or DeleteRouteSettings after a GetStage.
UpdateCallsOrdered ==
    \A i, j \in 1..Len(op.calls) :
        i < j => /\ ~(op.calls[i].call = "UpdateStage" /\ op.calls[j].call = "DeleteRouteSettings")
                 /\ ~(op.calls[i].call = "GetStage" /\ op.calls[j].call \in MutatingCalls)

\* C6: in an update every DeleteRouteSettings call comes before the one
\* UpdateStage call, which comes before the GetStage call of the closing
\* Read; when no call of the update phase fails, the update ends with
\* exactly one Read, whether or not an UpdateStage call was issued.
C6_UpdateCallOrder ==
    Returned("Update") =>
        /\ UpdateCallsOrdered
        /\ Cardinality(CallIdx("UpdateStage")) <= 1
        /\ Cardinality(CallIdx("GetStage")) <= 1
        /\ (op.err \notin {ErrReadApi, ErrDeleteRouteSettings, ErrUpdateStage}
              => Cardinality(CallIdx("GetStage")) = 1)
        /\ (CallIdx("GetStage") = {} =>
              /\ op.err \in {ErrReadApi, ErrDeleteRouteSettings, ErrUpdateStage}
              /\ op.calls[Len(op.calls)].err \notin {"", NotFound})

\* C6's case: an update has issued two deletes, then UpdateStage, then the
\* calls of the closing Read.
C6_Witness ==
    /\ Returned("Update")
    /\ Cardinality(CallIdx("DeleteRouteSettings")) = 2
    /\ CallIdx("UpdateStage") = {4}
    /\ CallIdx("GetStage") = {5}
    /\ op.err = ""

\* C7: when GetStage reports not-found to a Read of a resource that is not
\* new (a Read, or the closing Read of an update), the identity is cleared,
\* no error is returned, no attribute is written and no further call is
\* issued.
C7_NotFoundClearsIdentity ==
    (pc = "returned" /\ op.name \in {"Read", "Update"} /\ GetStageNotFound) =>
        /\ d.id = <<>>
        /\ op.err = ""
        /\ d.attrs = op.before.attrs
        /\ op.calls[Len(op.calls)].call = "GetStage"

\* C7's case: a Read of a resource with an identity got not-found.
C7_Witness ==
    /\ Returned("Read")
    /\ GetStageNotFound
    /\ op.before.id # <<>>
    /\ d.id = <<>>

\* C8: Delete issues exactly one call, DeleteStage; it returns no error when
\* the call succeeds or reports not-found and an error otherwise; it
\* changes no local attribute (nor the identity).
C8_DeleteOnce ==
    Returned("Delete") =>
        /\ Len(op.calls) = 1
        /\ op.calls[1].call = "DeleteStage"
        /\ op.calls[1].arg = op.before.id
        /\ (op.err = "" <=> op.calls[1].err \in {"", NotFound})
        /\ (op.err # "" => op.err = ErrDeleteStage)
        /\ d = op.before

\* C8's case: a Delete found the stage already absent and returned no error.
C8_Witness ==
    /\ Returned("Delete")
    /\ op.calls[1].err = NotFound
    /\ op.err = ""

\* An identifier that splits on "/" into exactly two non-empty parts.
TwoNonEmptyParts(id) ==
    \E i \in 2..(Len(id) - 1) :
        /\ id[i] = "/"
        /\ \A j \in (1..Len(id)) \ {i} : id[j] # "/"

\* C10: an import whose identifier does not split into exactly two
\* non-empty parts fails with the malformed-identifier error, issues no
\* call and leaves the local state as given; a well-formed identifier is
\* looked up with its first part as API id and its second as stage name.
C10_AsStated ==
    Returned("Import") =>
        IF TwoNonEmptyParts(op.before.id)
        THEN /\ Len(op.calls) = 1
             /\ op.calls[1].call = "GetStage"
             /\ (op.err = "" => d.attrs.api_id \o <<"/">> \o d.id = op.before.id)
        ELSE /\ op.err = ErrMalformedImportID
             /\ op.calls = <<>>
             /\ d = op.before

RouteConverted == conv.kind = "route" /\ conv.done

\* C9 as stated: under a protocol type other than WebSocket the flattened
\* entry has data_trace_enabled = FALSE and logging_level OFF, and keeps the
\* route key, detailed metrics, burst limit and rate limit of the entry.
C9_AsStated ==
    (RouteConverted /\ conv.protocol # ProtocolTypeWebsocket) =>
        \E f \in conv.flat :
            /\ conv.flat = {f}
            /\ f.data_trace_enabled = FALSE
            /\ f.logging_level \in {"OFF", "off"}
            /\ f.route_key = conv.entry.route_key
            /\ f.detailed_metrics_enabled = conv.entry.detailed_metrics_enabled
            /\ f.throttling_burst_limit = conv.entry.throttling_burst_limit
            /\ f.throttling_rate_limit = conv.entry.throttling_rate_limit

\* C9, amended: under a protocol type other than WebSocket the flattened
\* entry has data_trace_enabled = FALSE and the empty logging_level, whatever
\* the entry holds; it keeps the route key, detailed metrics and rate limit,
\* and the burst limit reduced to 32 bits: the entry's own burst limit when
\* that fits an int32, a different value when it does not.
C9_GateSuppresses ==
    (RouteConverted /\ conv.protocol # ProtocolTypeWebsocket) =>
        \E f \in conv.flat :
            /\ conv.flat = {f}
            /\ f.data_trace_enabled = FALSE
            /\ f.logging_level = ""
            /\ f.route_key = conv.entry.route_key
            /\ f.detailed_metrics_enabled = conv.entry.detailed_metrics_enabled
            /\ f.throttling_rate_limit = conv.entry.throttling_rate_limit
            /\ InInt32Range(f.throttling_burst_limit)
            /\ f.throttling_burst_limit.lo = conv.entry.throttling_burst_limit.lo
            /\ (f.throttling_burst_limit.hi - conv.entry.throttling_burst_limit.hi) % LimbBase = 0
            /\ (f.throttling_burst_limit = conv.entry.throttling_burst_limit
                  <=> InInt32Range(conv.entry.throttling_burst_limit))

\* C9's case: an entry with trace fields set and a burst limit that fits an
\* int32 has been converted under HTTP.
C9_Witness ==
    /\ RouteConverted
    /\ conv.protocol = ProtocolTypeHttp
    /\ conv.entry.data_trace_enabled
    /\ conv.entry.logging_level = "INFO"
    /\ conv.entry.throttling_burst_limit = GoInt(1, 100)

\* The stage-name part and the API-id part of a well-formed identifier.
StagePart(id) == SubSeq(id, IndexOfSep(id) + 1, Len(id))

ApiPart(id) == SubSeq(id, 1, IndexOfSep(id) - 1)

\* C11: an import of a well-formed identifier issues exactly one call, a
\* GetStage for the stage-name part; when the call fails or the record it
\* returns is marked as made by quick create, the import returns an error
\* and leaves the identity and api_id as given (not seeded); otherwise it
\* returns no error, the identity is the bare stage name and api_id the
\* API-id part.
C11_ImportLookup ==
    (Returned("Import") /\ TwoNonEmptyParts(op.before.id)) =>
        /\ Len(op.calls) = 1
        /\ op.calls[1].call = "GetStage"
        /\ op.calls[1].arg = StagePart(op.before.id)
        /\ IF op.calls[1].err # "" \/ remote[1].ApiGatewayManaged
           THEN /\ op.err # ""
                /\ d = op.before
                /\ d.attrs.api_id = <<>>
           ELSE /\ op.err = ""
                /\ d.id = StagePart(op.before.id)
                /\ d.attrs.api_id = ApiPart(op.before.id)
                /\ d.attrs = [op.before.attrs EXCEPT !.api_id = ApiPart(op.before.id)]

\* C11's case: the import of "a/$default" found a stage not made by quick
\* create and seeded the identity with the bare stage name.
C11_Witness ==
    /\ Returned("Import")
    /\ op.before.id = ApiId \o <<"/">> \o defaultStageName
    /\ op.err = ""
    /\ d.id = defaultStageName
    /\ d.attrs.api_id = ApiId

AccessLogConverted == conv.kind = "access" /\ conv.done

\* C12: for a list of one access-log entry whose destination and format
\* are both non-empty, flattening the expanded settings gives the list
\* back; for the empty list and for a list whose one element is null the
\* expanded settings are an object (not nil) with both fields absent;
\* flattening nil gives the empty list.
C12_AccessLogRoundTrip ==
    AccessLogConverted =>
        /\ ((Len(conv.list) = 1 /\ conv.list[1] # NullEntry
              /\ conv.list[1].destination_arn # "" /\ conv.list[1].format # "")
               => conv.flat = conv.list)
        /\ ((conv.list = <<>> \/ conv.list = <<NullEntry>>)
               => /\ conv.expanded = [DestinationArn |-> NilPtr, Format |-> NilPtr]
                  /\ Ptr(conv.expanded) # NilPtr)
        /\ conv.flatNil = <<>>

\* C12's case: an entry with both fields set has been expanded and
\* flattened.
C12_Witness ==
    /\ AccessLogConverted
    /\ conv.list = <<[destination_arn |-> "arn:logs", format |-> "$requestId"]>>
    /\ conv.expanded = [DestinationArn |-> Ptr("arn:logs"), Format |-> Ptr("$requestId")]

\* A handler whose Read ran to its end: GetStage and GetApi both answered.
ReadCompleted ==
    /\ pc = "returned"
    /\ op.name \in {"Create", "Read", "Update"}
    /\ op.err = ""
    /\ GetStageSucceeded

\* C13: after a Read that returned without error, invoke_url is
\* wss://<api>.execute-api.<region>.amazonaws.com/<stage> for a WebSocket
\* API; for an HTTP API it is https://<api>.execute-api.<region>.amazonaws.com/
\* with nothing after the "/" when the stage name is "$default", and with
\* the stage name after it otherwise.
C13_InvokeUrl ==
    ReadCompleted =>
        LET host == <<d.attrs.api_id, ".execute-api.", Region, ".amazonaws.com/">>
        IN /\ d.attrs.name = d.id
           /\ d.attrs.invoke_url =
                 IF protocolType = ProtocolTypeWebsocket
                 THEN <<"wss://">> \o host \o <<d.attrs.name>>
                 ELSE IF d.attrs.name = <<"$", "d", "e", "f", "a", "u", "l", "t">>
                 THEN <<"https://">> \o host
                 ELSE <<"https://">> \o host \o <<d.attrs.name>>

\* C13's case: a Read of the stage "$default" of an HTTP API has returned
\* without error.
C13_Witness ==
    /\ ReadCompleted
    /\ op.name = "Read"
    /\ protocolType = ProtocolTypeHttp
    /\ d.id = defaultStageName
    /\ Len(d.attrs.invoke_url) = 5

\* C14: the calls of a create are GetApi, then CreateStage, then those of
\* Read (GetStage, then GetApi), each issued only when the one before
\* succeeded; when GetApi or CreateStage fails the create stops there with
\* the identity unset; when CreateStage succeeded the identity is the stage
\* name it returned and the Read has run.
C14_CreateCallOrder ==
    Returned("Create") =>
        /\ Len(op.calls) \in 1..4
        /\ op.calls[1].call = "GetApi"
        /\ (Len(op.calls) >= 2 => op.calls[1].err = "" /\ op.calls[2].call = "CreateStage")
        /\ (Len(op.calls) >= 3 => op.calls[2].err = "" /\ op.calls[3].call = "GetStage")
        /\ (Len(op.calls) = 4 => op.calls[3].err = "" /\ op.calls[4].call = "GetApi")
        /\ (op.calls[1].err # "" =>
              Len(op.calls) = 1 /\ d.id = <<>> /\ op.err = ErrReadApi /\ remote = op.remoteBefore)
        /\ (~CreateStageSucceeded => d.id = <<>> /\ op.err # "" /\ Len(op.calls) <= 2)
        /\ (CreateStageSucceeded =>
              /\ Len(op.calls) >= 3
              /\ d.id = op.calls[2].arg.StageName
              /\ remote # NoStage => d.id = remote[1].StageName)

\* C14's case: a create whose four calls all succeeded, with the identity
\* adopted from CreateStage.
C14_Witness ==
    /\ Returned("Create")
    /\ Len(op.calls) = 4
    /\ op.err = ""
    /\ d.id = cfgName
    /\ remote # NoStage

\* C15: in an update, a DeleteRouteSettings call that reports not-found is
\* followed by the next per-key delete or by UpdateStage, and the keys still
\* to delete are all deleted; a DeleteRouteSettings call that fails for
\* another reason is the last call of the update, which returns the
\* delete error: no later delete, no UpdateStage and no call of Read.
C15_DeleteNotFoundContinues ==
    Returned("Update") =>
        /\ \A i \in CallIdx("DeleteRouteSettings") :
              IF op.calls[i].err \in {"", NotFound}
              THEN /\ i < Len(op.calls)
                   /\ op.calls[i + 1].call \in {"DeleteRouteSettings", "UpdateStage"}
              ELSE /\ i = Len(op.calls)
                   /\ op.err = ErrDeleteRouteSettings
                   /\ CallIdx("UpdateStage") = {}
                   /\ CallIdx("GetStage") = {}
                   /\ d = op.before
        /\ ((CallIdx("DeleteRouteSettings") # {}
               /\ \A i \in CallIdx("DeleteRouteSettings") : op.calls[i].err \in {"", NotFound})
              => /\ CallIdx("UpdateStage") # {}
                 /\ op.err # ErrDeleteRouteSettings
                 /\ DeletedKeys = DeleteKeys(OldAttrs, NewPlan))
        /\ (op.err = ErrDeleteRouteSettings =>
              /\ op.calls # <<>>
              /\ op.calls[Len(op.calls)].call = "DeleteRouteSettings"
              /\ op.calls[Len(op.calls)].err \notin {"", NotFound})

\* C15's case: the first of two per-key deletes reported not-found, the
\* second was still issued, and UpdateStage and the Read followed.
C15_Witness ==
    /\ Returned("Update")
    /\ Cardinality(CallIdx("DeleteRouteSettings")) = 2
    /\ op.calls[2].call = "DeleteRouteSettings"
    /\ op.calls[2].err = NotFound
    /\ op.calls[3].call = "DeleteRouteSettings"
    /\ CallIdx("UpdateStage") = {4}
    /\ op.err = ""

\* The fields of the UpdateStage request and the attributes they carry.
RequestFields ==
    {<<"AccessLogSettings", "access_log_settings">>, <<"AutoDeploy", "auto_deploy">>,
     <<"ClientCertificateId", "client_certificate_id">>,
     <<"DefaultRouteSettings", "default_route_settings">>,
     <<"DeploymentId", "deployment_id">>, <<"Description", "description">>,
     <<"RouteSettings", "route_settings">>, <<"StageVariables", "stage_variables">>}

\* An update with a non-empty change-set whose GetApi and per-key deletes
\* did not fail.
UpdatePhaseReachedUpdateStage ==
    /\ Returned("Update")
    /\ \E f \in MutableFields : OldAttrs[f] # NewPlan[f]
    /\ op.calls[1].err = ""
    /\ \A i \in CallIdx("DeleteRouteSettings") : op.calls[i].err \in {"", NotFound}

\* C16: such an update issues exactly one UpdateStage call, and the
\* request carries a field (the field is not nil) exactly when its
\* attribute changed; in every update with route_settings unchanged no
\* DeleteRouteSettings call is issued.
C16_Minimality ==
    /\ UpdatePhaseReachedUpdateStage =>
          /\ Cardinality(CallIdx("UpdateStage")) = 1
          /\ \A p \in RequestFields :
                UpdateRequest[p[1]] # NilPtr <=> OldAttrs[p[2]] # NewPlan[p[2]]
          /\ UpdateRequest.StageName = op.before.id
    /\ (Returned("Update") /\ OldAttrs.route_settings = NewPlan.route_settings) =>
          CallIdx("DeleteRouteSettings") = {}

\* C16's case: an update in which only the description changed, on a stage
\* with route settings and variables: the request carries the description
\* and neither route settings nor variables.
C16_Witness ==
    /\ UpdatePhaseReachedUpdateStage
    /\ OldAttrs.route_settings # {}
    /\ OldAttrs.stage_variables # EmptyMap
    /\ {f \in MutableFields : OldAttrs[f] # NewPlan[f]} = {"description"}
    /\ UpdateRequest.Description = Ptr("desc2")
    /\ UpdateRequest.RouteSettings = NilPtr
    /\ UpdateRequest.StageVariables = NilPtr

\* C17: when route_settings changed, the one UpdateStage request carries
\* a route-settings map whose keys are the route keys of the new set, those
\* of unchanged entries included and no other, each with the ungated
\* settings of its new entry; the only calls of the update are GetApi,
\* the per-key deletes, the one UpdateStage and those of Read, so that no
\* entry is set by a call of its own.
C17_BulkUpsert ==
    (RouteSettingsChanged /\ CallIdx("UpdateStage") # {}) =>
        LET N    == NewPlan.route_settings
            sent == UpdateRequest.RouteSettings
        IN /\ Cardinality(CallIdx("UpdateStage")) = 1
           /\ sent # NilPtr
           /\ DOMAIN sent[1] = Keys(N)
           /\ \A m \in N :
                 /\ sent[1][m.route_key].DetailedMetricsEnabled = Ptr(m.detailed_metrics_enabled)
                 /\ sent[1][m.route_key].ThrottlingRateLimit = Ptr(m.throttling_rate_limit)
           /\ \A i \in 1..Len(op.calls) :
                 op.calls[i].call \in {"GetApi", "DeleteRouteSettings", "UpdateStage", "GetStage"}
           /\ DeletedKeys \cap (Keys(N) \ Keys(OldAttrs.route_settings)) = {}

\* C17's case: an update has added the key B and left the entry of A as it
\* was; the request carries both keys.
C17_Witness ==
    /\ RouteSettingsChanged
    /\ CallIdx("UpdateStage") # {}
    /\ Keys(OldAttrs.route_settings) = {"A"}
    /\ OldAttrs.route_settings \subseteq NewPlan.route_settings
    /\ Keys(NewPlan.route_settings) = {"A", "B"}
    /\ DOMAIN UpdateRequest.RouteSettings[1] = {"A", "B"}

DefaultConverted == conv.kind = "default" /\ conv.done

\* The request record a conversion produced from its entry.
ExpandedRecord ==
    IF conv.kind = "route" THEN conv.expanded[conv.entry.route_key] ELSE conv.expanded

\* The int32 p holds v reduced to 32 bits: v itself when v fits.
HoldsInt32Of(p, v) ==
    /\ p # NilPtr
    /\ InInt32Range(p[1])
    /\ p[1].lo = v.lo
    /\ (p[1].hi - v.hi) % LimbBase = 0

\* C18: for every configuration entry, the record that
\* expandRouteSettings and the record that expandDefaultRouteSettings
\* produce hold data-trace-enabled and logging-level only under
\* WebSocket (then the entry's values) and never under another family;
\* they hold detailed-metrics, the rate limit and the burst limit (as the
\* int32 of the request field) under every family; and for the same five
\* values and family the two converters give the same record.
C18_ProtocolGate ==
    ((RouteConverted \/ DefaultConverted)) =>
        LET r == ExpandedRecord
            x == conv.entry
        IN /\ (conv.protocol # ProtocolTypeWebsocket =>
                  r.DataTraceEnabled = NilPtr /\ r.LoggingLevel = "")
           /\ (conv.protocol = ProtocolTypeWebsocket =>
                  r.DataTraceEnabled = Ptr(x.data_trace_enabled)
                  /\ r.LoggingLevel = x.logging_level)
           /\ r.DetailedMetricsEnabled = Ptr(x.detailed_metrics_enabled)
           /\ r.ThrottlingRateLimit = Ptr(x.throttling_rate_limit)
           /\ HoldsInt32Of(r.ThrottlingBurstLimit, x.throttling_burst_limit)
           /\ r = RouteSettingsOf(x, conv.protocol)
           /\ r = DefaultRouteSettingsOf(x, conv.protocol)

\* C18's case: a default_route_settings entry with the trace flag and a
\* logging level set has been expanded under HTTP.
C18_Witness ==
    /\ DefaultConverted
    /\ conv.protocol = ProtocolTypeHttp
    /\ conv.entry.data_trace_enabled
    /\ conv.entry.logging_level = "ERROR"
    /\ conv.entry.detailed_metrics_enabled
    /\ conv.expanded.DetailedMetricsEnabled = Ptr(TRUE)

\* The configuration entry a conversion flattened its record to.
FlatEntry ==
    IF conv.kind = "route" THEN CHOOSE f \in conv.flat : TRUE ELSE conv.flat[1]

\* C19: for every route-settings entry x and either family, flattening
\* the expanded x gives x back on detailed metrics, burst limit and rate
\* limit (and the route key), and under WebSocket also on the trace flag
\* and the logging level; expanding the flattened entry again gives the
\* record that expanding x gave.
C19_AsStated ==
    (RouteConverted \/ DefaultConverted) =>
        LET f == FlatEntry
            x == conv.entry
        IN /\ (conv.kind = "route" => conv.flat = {f} /\ f.route_key = x.route_key)
           /\ (conv.kind = "default" => Len(conv.flat) = 1)
           /\ f.detailed_metrics_enabled = x.detailed_metrics_enabled
           /\ f.throttling_burst_limit = x.throttling_burst_limit
           /\ f.throttling_rate_limit = x.throttling_rate_limit
           /\ (conv.protocol = ProtocolTypeWebsocket =>
                  /\ f.data_trace_enabled = x.data_trace_enabled
                  /\ f.logging_level = x.logging_level)
           /\ conv.again = conv.expanded

GetStageFailedOtherwise == \E i \in CallIdx("GetStage") : op.calls[i].err = OtherError

\* C20: when the GetStage of the Read that closes a create reports
\* not-found, the create returns the read error, the identity stays the
\* name adopted from CreateStage and no attribute is written; when GetStage
\* fails for another reason the handler returns the read error and keeps
\* the identity, in a create as in a read or an update.
C20_FreshNotFoundIsError ==
    /\ (Returned("Create") /\ GetStageNotFound) =>
          /\ op.err = ErrReadStage
          /\ d.id = op.calls[2].arg.StageName
          /\ d.id # <<>>
          /\ d.attrs = op.before.attrs
          /\ op.calls[Len(op.calls)].call = "GetStage"
    /\ (pc = "returned" /\ GetStageFailedOtherwise) =>
          /\ op.err = (IF op.name = "Import" THEN OtherError ELSE ErrReadStage)
          /\ d.id # <<>>
          /\ d.attrs = op.before.attrs
          /\ (op.name = "Create" => d.id = op.calls[2].arg.StageName)
          /\ (op.name # "Create" => d.id = op.before.id)
          /\ op.calls[Len(op.calls)].call = "GetStage"

\* C20's case: the stage was gone when the Read that closes a create
\* looked it up; the create failed and kept the identity.
C20_Witness ==
    /\ Returned("Create")
    /\ GetStageNotFound
    /\ op.err = ErrReadStage
    /\ d.id = cfgName
    /\ remote = NoStage

\* C21: a Read and an Import issue only GetStage and GetApi calls, and
\* the remote record they leave is the one they found, or none when the
\* stage had been removed by someone else and GetStage reported not-found;
\* so the remote record is changed by the handlers only in Create, Update
\* and Delete.  A Delete leaves the identity and api_id as they were; an
\* Update leaves api_id as it was, and the identity too unless the GetStage
\* of its closing Read reported not-found, which clears it.
C21_ReadOnlyAndIdentity ==
    /\ (pc = "returned" /\ op.name \in {"Read", "Import"}) =>
          /\ \A i \in 1..Len(op.calls) :
                /\ op.calls[i].call \in {"GetStage", "GetApi"}
                /\ op.calls[i].call \notin MutatingCalls
          /\ (remote # op.remoteBefore => remote = NoStage /\ GetStageNotFound)
    /\ (pc = "returned" /\ remote # op.remoteBefore /\ ~GetStageNotFound) =>
          /\ op.name \in {"Create", "Update", "Delete"}
          /\ \E i \in 1..Len(op.calls) :
                op.calls[i].call \in MutatingCalls /\ op.calls[i].err \in {"", NotFound}
    /\ Returned("Delete") =>
          /\ d.id = op.before.id
          /\ d.attrs.api_id = op.before.attrs.api_id
    /\ Returned("Update") =>
          /\ d.attrs.api_id = op.before.attrs.api_id
          /\ (d.id # op.before.id =>
                /\ d.id = <<>>
                /\ op.err = ""
                /\ op.calls[Len(op.calls)].call = "GetStage"
                /\ op.calls[Len(op.calls)].err = NotFound)

\* C21's case: a Delete has removed the remote stage and left the identity
\* and api_id in the resource data.
C21_Witness ==
    /\ Returned("Delete")
    /\ op.err = ""
    /\ op.remoteBefore # NoStage
    /\ remote = NoStage
    /\ d.id = op.before.id
    /\ d.id # <<>>
    /\ d.attrs.api_id = ApiId

====
